---- MODULE Spec2Model ----
(***************************************************************************)
(* Model of chip8-rust: the bounded Stack and the Timers facility of       *)
(* src/system.rs and the broadcast Clock of src/clock.rs.                  *)
(*                                                                         *)
(* The three components share no state, so each is exercised by its own    *)
(* specification (SpecStack, SpecTimers, SpecClock); SpecFacilities runs   *)
(* either of the two thread-owning facilities for the statements that      *)
(* speak about both.                                                       *)
(***************************************************************************)
EXTENDS Naturals, Integers, Sequences, FiniteSets, TLC

(***************************************************************************)
(* Program constants.                                                      *)
(***************************************************************************)
STACK_SIZE == 16
RUNLOOP_TIMER_DEFAULT == 8
\* width of the AtomicU8 counters
U8 == 256

(***************************************************************************)
(* Bounds of the model.                                                    *)
(***************************************************************************)
\* how many pushes of the second test value a run may contain
MaxAlt == 2

\* how many times start may be called on one facility
MaxStarts == 2
\* how many times teardown may be called on one facility
MaxTeardowns == 2
\* how many cadence ticks the Timers threads may begin in a run
MaxTicks == 3
\* how many fan-outs the Clock threads may begin in a run
MaxFanOuts == 2
\* how many listeners may be registered on the Clock
MaxListeners == 2

\* the values set_delay_timer / set_sound_timer are called with
SetValues == {0, 1, 2}

\* the two values the test stack_push_pop pushes (0xEF and 0xAB)
BaseValue == 239
AltValue == 171

VARIABLES
    component,  \* which object the driver constructed: "stack" | "timers" | "clock"
    memory,     \* Stack.memory : [u16; 16]
    p,          \* Stack.p : u8
    lastOp,     \* history: the last Stack call, "none" | "push" | "pop"
    lastRes,    \* history: the Result that call returned
    phase,      \* history: "pushing" | "popping" | "other" (see Track*)
    pushedSeq,  \* history: values pushed since Stack::new, while only pushing
    pushesOk,   \* history: every one of those pushes returned Ok
    poppedSeq,  \* history: results of the pops that followed those pushes
    nAlt,       \* history: number of pushes of AltValue so far
    netOk,      \* history: successful pushes minus successful pops
    lastAt,     \* history: the memory index the last call read or wrote (-1: none)
    delay_timer,    \* Timers.delay_timer : Arc<AtomicU8>
    sound_timer,    \* Timers.sound_timer : Arc<AtomicU8>
    t_handle,       \* Timers.timer_handle : 0 is None, else the thread joined by it
    t_stop,         \* Timers.stop_flag : Arc<AtomicBool>
    t_pc,           \* position of each spawned Timers thread in its closure
    t_caller,       \* "idle", or "joining" while teardown waits in join()
    t_joining,      \* the thread whose handle teardown took (0: none)
    t_ticks,        \* history: cadence ticks begun by Timers threads
    t_lastRet,      \* history: what the last teardown call returned
    t_tdCalls,      \* history: number of teardown calls so far
    t_lastCall,     \* history: the last method called on the Timers
    t_startDelay,   \* history: the delay counter when start was first called
    t_setAfterStart,\* history: set_delay_timer was called after start
    t_early,        \* history: start calls made before the first teardown call
    t_read,         \* history: what the last retrieve_delay_timer call returned
    t_setVal,       \* history: the value of the last set call, while it is the last call
    t_sinceSet,     \* history: ticks completed since that set call (2: two or more)
    t_tick,         \* history: counters at the begin of the tick in progress,
                    \*   "dirty" after a set call during it, "none" between ticks
    c_stop,         \* Clock.stop_flag : Arc<AtomicBool>
    c_handle,       \* Clock.timer_handle : 0 is None, else the thread joined by it
    c_listeners,    \* Clock.listeners : Vec<Sender<()>>, as channel numbers
    c_pc,           \* position of each spawned Clock thread in its closure
    c_idx,          \* each thread's position in `for listener in &listeners`
    c_tl,           \* each thread's `listeners`, the clone moved into its closure
    c_caller,       \* "idle", or "joining" while teardown waits in join()
    c_joining,      \* the thread whose handle teardown took (0: none)
    ch_buf,         \* per channel: ticks sent and not yet received
    ch_sent,        \* history, per channel: ticks sent into it
    rx_alive,       \* per channel: its Receiver has not been dropped
    c_nch,          \* number of channels become_listener has created
    c_ticks,        \* history: fan-outs begun by Clock threads
    c_tdCalls,      \* history: number of teardown calls so far
    c_lastCall,     \* history: the last method called on the Clock
    c_lastRet,      \* history: what that call returned
    c_lastLife,     \* history: the later of start / teardown, "none" if neither
    c_early         \* history: start calls made before the first teardown call

stackVars == <<memory, p, lastOp, lastRes, phase, pushedSeq, pushesOk, poppedSeq,
               nAlt, netOk, lastAt>>

timersVars == <<delay_timer, sound_timer, t_handle, t_stop, t_pc, t_caller,
                t_joining, t_ticks, t_lastRet, t_tdCalls, t_lastCall,
                t_startDelay, t_setAfterStart, t_early, t_read, t_setVal,
                t_sinceSet, t_tick>>

clockVars == <<c_stop, c_handle, c_listeners, c_pc, c_idx, c_tl, c_caller,
               c_joining, ch_buf, ch_sent, rx_alive, c_nch, c_ticks, c_tdCalls,
               c_lastCall, c_lastRet, c_lastLife, c_early>>

vars == <<component, stackVars, timersVars, clockVars>>

Chans == 1..MaxListeners

Threads == 1..MaxStarts
None == 0

(***************************************************************************)
(* Result<_, u8> values.                                                   *)
(***************************************************************************)
Ok(v) == [ok |-> TRUE, val |-> v]
Err(e) == [ok |-> FALSE, val |-> e]

(***************************************************************************)
(* Stack (src/system.rs).  A stack value is [memory, p]; push and pop      *)
(* return the new stack value together with the Result.                    *)
(***************************************************************************)
StackNew == [memory |-> [i \in 0..(STACK_SIZE - 1) |-> 0], p |-> 0]

\* push with the bounds test off by one
StackPushOffByOne(s, value) ==
    IF s.p > STACK_SIZE
    THEN [memory |-> s.memory, p |-> s.p, res |-> Err(s.p), at |-> -1]
    ELSE [memory |-> IF s.p \in DOMAIN s.memory
                     THEN [s.memory EXCEPT ![s.p] = value]
                     ELSE s.memory,
          p |-> s.p + 1,
          res |-> Ok(0),
          at |-> s.p]

\* `at` is the index of the memory slot the call reads or writes
StackPush(s, value) ==
    IF s.p >= STACK_SIZE
    THEN [memory |-> s.memory, p |-> s.p, res |-> Err(s.p), at |-> -1]
    ELSE [memory |-> [s.memory EXCEPT ![s.p] = value],
          p |-> s.p + 1,
          res |-> Ok(0),
          at |-> s.p]

StackPop(s) ==
    IF s.p = 0
    THEN [memory |-> s.memory, p |-> s.p, res |-> Err(0), at |-> -1]
    ELSE IF s.p >= STACK_SIZE
    THEN [memory |-> s.memory, p |-> s.p, res |-> Err(s.p), at |-> -1]
    ELSE [memory |-> s.memory, p |-> s.p - 1, res |-> Ok(s.memory[s.p - 1]),
          at |-> s.p - 1]

Self == [memory |-> memory, p |-> p]

\* History of the run "n pushes onto a new stack, then n pops".
TrackPush(value, res) ==
    IF phase = "pushing" /\ Len(pushedSeq) < STACK_SIZE
    THEN /\ phase' = "pushing"
         /\ pushedSeq' = Append(pushedSeq, value)
         /\ pushesOk' = (pushesOk /\ res.ok)
         /\ poppedSeq' = <<>>
    ELSE /\ phase' = "other"
         /\ pushedSeq' = <<>>
         /\ pushesOk' = TRUE
         /\ poppedSeq' = <<>>

TrackPop(res) ==
    IF phase \in {"pushing", "popping"} /\ Len(poppedSeq) < Len(pushedSeq)
    THEN /\ phase' = "popping"
         /\ poppedSeq' = Append(poppedSeq, res)
         /\ UNCHANGED <<pushedSeq, pushesOk>>
    ELSE /\ phase' = "other"
         /\ pushedSeq' = <<>>
         /\ pushesOk' = TRUE
         /\ poppedSeq' = <<>>

Push(value) ==
    /\ component = "stack"
    /\ value = AltValue => nAlt < MaxAlt
    /\ LET r == StackPush(Self, value) IN
        /\ memory' = r.memory
        /\ p' = r.p
        /\ lastOp' = "push"
        /\ lastRes' = r.res
        /\ lastAt' = r.at
        /\ netOk' = IF r.res.ok THEN netOk + 1 ELSE netOk
        /\ TrackPush(value, r.res)
    /\ nAlt' = IF value = AltValue THEN nAlt + 1 ELSE nAlt
    /\ UNCHANGED <<component, timersVars, clockVars>>

Pop ==
    /\ component = "stack"
    /\ LET r == StackPop(Self) IN
        /\ memory' = r.memory
        /\ p' = r.p
        /\ lastOp' = "pop"
        /\ lastRes' = r.res
        /\ lastAt' = r.at
        /\ netOk' = IF r.res.ok THEN netOk - 1 ELSE netOk
        /\ TrackPop(r.res)
    /\ UNCHANGED <<nAlt, component, timersVars, clockVars>>

(***************************************************************************)
(* Timers (src/system.rs).                                                 *)
(***************************************************************************)
\* a subtraction of 2
FetchSub1By2(v) == (v + U8 - 2) % U8

\* AtomicU8::fetch_sub(1) wraps around on underflow
FetchSub1(v) == (v + U8 - 1) % U8

\* the guard comparing against 1
NonzeroAboveOne(v) == v > 1

\* the test `load(..) > 0` that guards each fetch_sub
Nonzero(v) == v > 0

\* a teardown that does not wait for the thread
JoinedNoWait(pc) == TRUE

\* a thread's closure has ended, by leaving its loop or by a panic
ThreadEnded(pc) == pc \in {"exited", "panicked"}

\* JoinHandle::join returns once the joined thread has run to its end
Joined(pc) == ThreadEnded(pc)

\* `.join().map_err(|_| "thread panicked")`
JoinResult(pc) == IF pc = "panicked" THEN "thread panicked" ELSE "Ok"

\* a loop that never looks at the stop flag
AfterCheckNoStop(stop) == "poll"

\* `while !stop_flag.load(Relaxed)`: leave the loop or go round once more
AfterCheck(stop) == IF stop THEN "exited" ELSE "poll"

\* a teardown that reads the handle and leaves it in place
TakeHandleKeep(h) == h

\* Option::take on timer_handle
TakeHandle(h) == None

retrieve_delay_timer == delay_timer

\* values of the history variable t_tick outside a tracked tick
TickNone == [st |-> "none", delay |-> 0, sound |-> 0]
TickDirty == [st |-> "dirty", delay |-> 0, sound |-> 0]

\* t_sinceSet after one more completed tick
SinceSetNext ==
    IF t_lastCall \in {"set_delay_timer", "set_sound_timer"} /\ t_sinceSet < 2
    THEN t_sinceSet + 1 ELSE t_sinceSet

TimersInit ==
    /\ delay_timer = RUNLOOP_TIMER_DEFAULT
    /\ sound_timer = RUNLOOP_TIMER_DEFAULT
    /\ t_handle = None
    /\ t_stop = FALSE
    /\ t_pc = [t \in Threads |-> "unspawned"]
    /\ t_caller = "idle"
    /\ t_joining = None
    /\ t_ticks = 0
    /\ t_lastRet = "none"
    /\ t_tdCalls = 0
    /\ t_lastCall = "new"
    /\ t_startDelay = RUNLOOP_TIMER_DEFAULT
    /\ t_setAfterStart = FALSE
    /\ t_early = 0
    /\ t_read = 0
    /\ t_setVal = 0
    /\ t_sinceSet = 0
    /\ t_tick = TickNone

TSpawned == {t \in Threads : t_pc[t] # "unspawned"}

\* Timers::start: spawn a thread, overwrite timer_handle with its handle
TimersStart ==
    /\ component = "timers"
    /\ t_caller = "idle"
    /\ \E t \in Threads :
        /\ t_pc[t] = "unspawned"
        /\ \A u \in Threads : u < t => t_pc[u] # "unspawned"
        /\ t_pc' = [t_pc EXCEPT ![t] = "check"]
        /\ t_handle' = t
    /\ t_startDelay' = IF TSpawned = {} THEN delay_timer ELSE t_startDelay
    /\ t_lastCall' = "start"
    /\ t_early' = IF t_stop THEN t_early ELSE t_early + 1
    /\ t_read' = 0 /\ t_setVal' = 0 /\ t_sinceSet' = 0
    /\ UNCHANGED <<delay_timer, sound_timer, t_stop, t_caller, t_joining,
                   t_ticks, t_lastRet, t_tdCalls, t_setAfterStart, t_tick>>
    /\ UNCHANGED <<component, stackVars, clockVars>>

\* Timers::teardown up to the join: store the flag, take the handle
TimersTeardown ==
    /\ component = "timers"
    /\ t_caller = "idle"
    /\ t_tdCalls < MaxTeardowns
    /\ t_tdCalls' = t_tdCalls + 1
    /\ t_lastCall' = "teardown"
    /\ t_stop' = TRUE
    /\ t_handle' = TakeHandle(t_handle)
    /\ IF t_handle # None
       THEN /\ t_caller' = "joining"
            /\ t_joining' = t_handle
            /\ t_lastRet' = "none"
       ELSE /\ t_lastRet' = "Ok"
            /\ UNCHANGED <<t_caller, t_joining>>
    /\ t_read' = 0 /\ t_setVal' = 0 /\ t_sinceSet' = 0
    /\ UNCHANGED <<delay_timer, sound_timer, t_pc, t_ticks, t_startDelay,
                   t_setAfterStart, t_early, t_tick>>
    /\ UNCHANGED <<component, stackVars, clockVars>>

\* Timers::teardown, the return of join()
TimersTeardownJoin ==
    /\ component = "timers"
    /\ t_caller = "joining"
    /\ Joined(t_pc[t_joining])
    /\ t_caller' = "idle"
    /\ t_lastRet' = JoinResult(t_pc[t_joining])
    /\ UNCHANGED <<delay_timer, sound_timer, t_handle, t_stop, t_pc,
                   t_joining, t_ticks, t_tdCalls, t_lastCall, t_startDelay,
                   t_setAfterStart, t_early, t_read, t_setVal, t_sinceSet,
                   t_tick>>
    /\ UNCHANGED <<component, stackVars, clockVars>>

set_delay_timer(value) ==
    /\ component = "timers"
    /\ t_caller = "idle"
    /\ delay_timer' = value
    /\ t_setAfterStart' = (t_setAfterStart \/ TSpawned # {})
    /\ t_lastCall' = "set_delay_timer"
    /\ t_read' = 0 /\ t_setVal' = value /\ t_sinceSet' = 0
    /\ t_tick' = IF t_tick = TickNone THEN TickNone ELSE TickDirty
    /\ UNCHANGED <<sound_timer, t_handle, t_stop, t_pc, t_caller, t_joining,
                   t_ticks, t_lastRet, t_tdCalls, t_startDelay, t_early>>
    /\ UNCHANGED <<component, stackVars, clockVars>>

set_sound_timer(value) ==
    /\ component = "timers"
    /\ t_caller = "idle"
    /\ sound_timer' = value
    /\ t_lastCall' = "set_sound_timer"
    /\ t_read' = 0 /\ t_setVal' = value /\ t_sinceSet' = 0
    /\ t_tick' = IF t_tick = TickNone THEN TickNone ELSE TickDirty
    /\ UNCHANGED <<delay_timer, t_handle, t_stop, t_pc, t_caller, t_joining,
                   t_ticks, t_lastRet, t_tdCalls, t_startDelay,
                   t_setAfterStart, t_early>>
    /\ UNCHANGED <<component, stackVars, clockVars>>

\* Timers::retrieve_delay_timer as a call of the driver
RetrieveDelayTimer ==
    /\ component = "timers"
    /\ t_caller = "idle"
    /\ t_read' = retrieve_delay_timer
    /\ t_lastCall' = "retrieve_delay_timer"
    /\ t_setVal' = 0 /\ t_sinceSet' = 0
    /\ UNCHANGED <<delay_timer, sound_timer, t_handle, t_stop, t_pc, t_caller,
                   t_joining, t_ticks, t_lastRet, t_tdCalls, t_startDelay,
                   t_setAfterStart, t_early, t_tick>>
    /\ UNCHANGED <<component, stackVars, clockVars>>

\* The thread's closure, one atomic access per step.
\* `while !stop_flag.load(Relaxed)`
TimersCheck(t) ==
    /\ t_pc[t] = "check"
    /\ t_pc' = [t_pc EXCEPT ![t] = AfterCheck(t_stop)]
    /\ UNCHANGED <<delay_timer, sound_timer, t_ticks, t_sinceSet, t_tick>>

\* `if now - last_update >= TIMER_INTERVAL`: the interval has elapsed or not
TimersPoll(t) ==
    /\ t_pc[t] = "poll"
    /\ \/ /\ t_ticks < MaxTicks
          /\ t_ticks' = t_ticks + 1
          /\ t_pc' = [t_pc EXCEPT ![t] = "load_delay"]
          /\ t_sinceSet' = t_sinceSet
          /\ t_tick' = IF t_tick = TickNone
                        THEN [st |-> "clean", delay |-> delay_timer,
                              sound |-> sound_timer]
                        ELSE TickDirty
       \/ /\ t_pc' = [t_pc EXCEPT ![t] = "check"]
          /\ UNCHANGED <<t_ticks, t_sinceSet, t_tick>>
    /\ UNCHANGED <<delay_timer, sound_timer>>

\* `if delay_timer.load(SeqCst) > 0`
TimersLoadDelay(t) ==
    /\ t_pc[t] = "load_delay"
    /\ t_pc' = [t_pc EXCEPT ![t] =
                   IF Nonzero(delay_timer) THEN "sub_delay" ELSE "load_sound"]
    /\ UNCHANGED <<delay_timer, sound_timer, t_ticks, t_sinceSet, t_tick>>

\* `delay_timer.fetch_sub(1, SeqCst)`
TimersSubDelay(t) ==
    /\ t_pc[t] = "sub_delay"
    /\ delay_timer' = FetchSub1(delay_timer)
    /\ t_pc' = [t_pc EXCEPT ![t] = "load_sound"]
    /\ UNCHANGED <<sound_timer, t_ticks, t_sinceSet, t_tick>>

\* `if sound_timer.load(SeqCst) > 0`, else `last_update = now`
TimersLoadSound(t) ==
    /\ t_pc[t] = "load_sound"
    /\ t_pc' = [t_pc EXCEPT ![t] =
                   IF Nonzero(sound_timer) THEN "sub_sound" ELSE "check"]
    /\ t_tick' = IF t_pc'[t] = "check" THEN TickNone ELSE t_tick
    /\ t_sinceSet' = IF t_pc'[t] = "check" THEN SinceSetNext ELSE t_sinceSet
    /\ UNCHANGED <<delay_timer, sound_timer, t_ticks>>

\* `sound_timer.fetch_sub(1, SeqCst); last_update = now`
TimersSubSound(t) ==
    /\ t_pc[t] = "sub_sound"
    /\ sound_timer' = FetchSub1(sound_timer)
    /\ t_pc' = [t_pc EXCEPT ![t] = "check"]
    /\ t_tick' = TickNone
    /\ t_sinceSet' = SinceSetNext
    /\ UNCHANGED <<delay_timer, t_ticks>>

TimersThread(t) ==
    /\ component = "timers"
    /\ \/ TimersCheck(t)
       \/ TimersPoll(t)
       \/ TimersLoadDelay(t)
       \/ TimersSubDelay(t)
       \/ TimersLoadSound(t)
       \/ TimersSubSound(t)
    /\ UNCHANGED <<t_handle, t_stop, t_caller, t_joining, t_lastRet,
                   t_tdCalls, t_lastCall, t_startDelay, t_setAfterStart,
                   t_early, t_read, t_setVal>>
    /\ UNCHANGED <<component, stackVars, clockVars>>

TimersNext ==
    \/ TimersStart
    \/ TimersTeardown
    \/ TimersTeardownJoin
    \/ \E value \in SetValues : set_delay_timer(value)
    \/ \E value \in SetValues : set_sound_timer(value)
    \/ RetrieveDelayTimer
    \/ \E t \in Threads : TimersThread(t)

(***************************************************************************)
(* Clock (src/clock.rs).  A channel is a number in Chans; a Sender is the  *)
(* number of its channel.  A channel is connected as long as one Sender    *)
(* of it is alive: in Clock.listeners or in the clone a thread holds until *)
(* its closure ends.                                                       *)
(***************************************************************************)
Range(f) == {f[i] : i \in DOMAIN f}

SenderAlive(ch) ==
    \/ ch \in Range(c_listeners)
    \/ \E t \in Threads : ch \in Range(c_tl[t])

\* Receiver::recv as the tests call it: a buffered tick, else a disconnect
\* error when no Sender is left, else it blocks
RecvResult(ch) ==
    IF ch_buf[ch] > 0 THEN "tick"
    ELSE IF ~SenderAlive(ch) THEN "disconnected"
    ELSE "blocked"

\* become_listener looking at the stop flag only
BecomeListenerResultFlagOnly(handle, stop) ==
    IF ~stop THEN "Ok" ELSE "terminated"

\* the branches of become_listener
BecomeListenerResult(handle, stop) ==
    IF handle # None THEN "already_started"
    ELSE IF ~stop THEN "Ok"
    ELSE "terminated"

\* a teardown that keeps its senders
DrainListenersKeep(listeners) == listeners

\* `for listener in self.listeners.drain(..) { drop(listener) }`
DrainListeners(listeners) == <<>>

\* a fan-out that leaves the loop after its first send
FanOutNextBreak(idx, n) == [pc |-> "check", idx |-> 0]

\* the step of `for listener in &listeners` after the send to listener idx of n
FanOutNext(idx, n) ==
    IF idx < n THEN [pc |-> "send", idx |-> idx + 1]
    ELSE [pc |-> "check", idx |-> 0]

\* Sender::send: Err when the Receiver of the channel has been dropped
SendResult(alive) == IF alive THEN "Ok" ELSE "Err"

\* a send whose result is unwrapped
AfterSendUnwrap(res, idx, n) ==
    IF res = "Err" THEN [pc |-> "panicked", idx |-> 0] ELSE FanOutNext(idx, n)

\* `let _ = listener.send(())`: the result is discarded, the loop goes on
AfterSend(res, idx, n) == FanOutNext(idx, n)

ClockInit ==
    /\ c_stop = FALSE
    /\ c_handle = None
    /\ c_listeners = <<>>
    /\ c_pc = [t \in Threads |-> "unspawned"]
    /\ c_idx = [t \in Threads |-> 0]
    /\ c_tl = [t \in Threads |-> <<>>]
    /\ c_caller = "idle"
    /\ c_joining = None
    /\ ch_buf = [ch \in Chans |-> 0]
    /\ ch_sent = [ch \in Chans |-> 0]
    /\ rx_alive = [ch \in Chans |-> TRUE]
    /\ c_nch = 0
    /\ c_ticks = 0
    /\ c_tdCalls = 0
    /\ c_lastCall = "new"
    /\ c_lastRet = "none"
    /\ c_lastLife = "none"
    /\ c_early = 0

CSpawned == {t \in Threads : c_pc[t] # "unspawned"}

\* Clock::start: clone the listeners, spawn a thread, overwrite timer_handle
ClockStart ==
    /\ component = "clock"
    /\ c_caller = "idle"
    /\ \E t \in Threads :
        /\ c_pc[t] = "unspawned"
        /\ \A u \in Threads : u < t => c_pc[u] # "unspawned"
        /\ c_pc' = [c_pc EXCEPT ![t] = "check"]
        /\ c_tl' = [c_tl EXCEPT ![t] = c_listeners]
        /\ c_handle' = t
    /\ c_lastCall' = "start"
    /\ c_lastRet' = "none"
    /\ c_lastLife' = "start"
    /\ c_early' = IF c_stop THEN c_early ELSE c_early + 1
    /\ UNCHANGED <<c_stop, c_listeners, c_idx, c_caller, c_joining, ch_buf,
                   ch_sent, rx_alive, c_nch, c_ticks, c_tdCalls>>
    /\ UNCHANGED <<component, stackVars, timersVars>>

\* Clock::teardown up to the join: store the flag, drop the senders, take
\* the handle
ClockTeardown ==
    /\ component = "clock"
    /\ c_caller = "idle"
    /\ c_tdCalls < MaxTeardowns
    /\ c_tdCalls' = c_tdCalls + 1
    /\ c_lastCall' = "teardown"
    /\ c_lastLife' = "teardown"
    /\ c_stop' = TRUE
    /\ c_listeners' = DrainListeners(c_listeners)
    /\ c_handle' = TakeHandle(c_handle)
    /\ IF c_handle # None
       THEN /\ c_caller' = "joining"
            /\ c_joining' = c_handle
            /\ c_lastRet' = "none"
       ELSE /\ c_lastRet' = "Ok"
            /\ UNCHANGED <<c_caller, c_joining>>
    /\ UNCHANGED <<c_pc, c_idx, c_tl, ch_buf, ch_sent, rx_alive, c_nch, c_ticks,
                   c_early>>
    /\ UNCHANGED <<component, stackVars, timersVars>>

\* Clock::teardown, the return of join()
ClockTeardownJoin ==
    /\ component = "clock"
    /\ c_caller = "joining"
    /\ Joined(c_pc[c_joining])
    /\ c_caller' = "idle"
    /\ c_lastRet' = JoinResult(c_pc[c_joining])
    /\ UNCHANGED <<c_stop, c_handle, c_listeners, c_pc, c_idx, c_tl, c_joining,
                   ch_buf, ch_sent, rx_alive, c_nch, c_ticks, c_tdCalls,
                   c_lastCall, c_lastLife, c_early>>
    /\ UNCHANGED <<component, stackVars, timersVars>>

become_listener ==
    /\ component = "clock"
    /\ c_caller = "idle"
    /\ LET r == BecomeListenerResult(c_handle, c_stop) IN
        /\ c_lastRet' = r
        /\ IF r = "Ok"
           THEN /\ c_nch < MaxListeners
                /\ c_nch' = c_nch + 1
                /\ c_listeners' = Append(c_listeners, c_nch + 1)
           ELSE UNCHANGED <<c_nch, c_listeners>>
    /\ c_lastCall' = "become_listener"
    /\ UNCHANGED <<c_stop, c_handle, c_pc, c_idx, c_tl, c_caller, c_joining,
                   ch_buf, ch_sent, rx_alive, c_ticks, c_tdCalls, c_lastLife, c_early>>
    /\ UNCHANGED <<component, stackVars, timersVars>>

\* a consumer's `rx.recv()` that takes a buffered tick
Recv(ch) ==
    /\ component = "clock"
    /\ ch <= c_nch
    /\ rx_alive[ch]
    /\ RecvResult(ch) = "tick"
    /\ ch_buf' = [ch_buf EXCEPT ![ch] = @ - 1]
    /\ UNCHANGED <<c_stop, c_handle, c_listeners, c_pc, c_idx, c_tl, c_caller,
                   c_joining, ch_sent, rx_alive, c_nch, c_ticks, c_tdCalls,
                   c_lastCall, c_lastRet, c_lastLife, c_early>>
    /\ UNCHANGED <<component, stackVars, timersVars>>

\* a consumer drops its Receiver; what the channel still holds goes with it
DropReceiver(ch) ==
    /\ component = "clock"
    /\ ch <= c_nch
    /\ rx_alive[ch]
    /\ rx_alive' = [rx_alive EXCEPT ![ch] = FALSE]
    /\ ch_buf' = [ch_buf EXCEPT ![ch] = 0]
    /\ UNCHANGED <<c_stop, c_handle, c_listeners, c_pc, c_idx, c_tl, c_caller,
                   c_joining, ch_sent, c_nch, c_ticks, c_tdCalls,
                   c_lastCall, c_lastRet, c_lastLife, c_early>>
    /\ UNCHANGED <<component, stackVars, timersVars>>

\* `while !stop_flag.load(Relaxed)`; the clone is dropped with the closure
ClockCheck(t) ==
    /\ c_pc[t] = "check"
    /\ c_pc' = [c_pc EXCEPT ![t] = AfterCheck(c_stop)]
    /\ c_tl' = [c_tl EXCEPT ![t] = IF ThreadEnded(c_pc'[t]) THEN <<>> ELSE @]
    /\ UNCHANGED <<c_idx, ch_buf, ch_sent, c_ticks>>

\* `if now - last_update >= interval`: the interval has elapsed or not
ClockPoll(t) ==
    /\ c_pc[t] = "poll"
    /\ \/ /\ c_ticks < MaxFanOuts
          /\ c_ticks' = c_ticks + 1
          /\ IF c_tl[t] = <<>>
             THEN /\ c_pc' = [c_pc EXCEPT ![t] = "check"]
                  /\ UNCHANGED c_idx
             ELSE /\ c_pc' = [c_pc EXCEPT ![t] = "send"]
                  /\ c_idx' = [c_idx EXCEPT ![t] = 1]
       \/ /\ c_pc' = [c_pc EXCEPT ![t] = "check"]
          /\ UNCHANGED <<c_idx, c_ticks>>
    /\ UNCHANGED <<c_tl, ch_buf, ch_sent>>

\* `let _ = listener.send(())`: fails, ignored, when the Receiver is gone
ClockSend(t) ==
    /\ c_pc[t] = "send"
    /\ LET ch == c_tl[t][c_idx[t]]
           res == SendResult(rx_alive[ch])
           nx == AfterSend(res, c_idx[t], Len(c_tl[t]))
       IN /\ IF res = "Ok"
             THEN /\ ch_buf' = [ch_buf EXCEPT ![ch] = @ + 1]
                  /\ ch_sent' = [ch_sent EXCEPT ![ch] = @ + 1]
             ELSE UNCHANGED <<ch_buf, ch_sent>>
          /\ c_pc' = [c_pc EXCEPT ![t] = nx.pc]
          /\ c_idx' = [c_idx EXCEPT ![t] = nx.idx]
          /\ c_tl' = [c_tl EXCEPT ![t] = IF ThreadEnded(nx.pc) THEN <<>> ELSE @]
    /\ UNCHANGED c_ticks

ClockThread(t) ==
    /\ component = "clock"
    /\ \/ ClockCheck(t)
       \/ ClockPoll(t)
       \/ ClockSend(t)
    /\ UNCHANGED <<c_stop, c_handle, c_listeners, c_caller, c_joining,
                   rx_alive, c_nch, c_tdCalls, c_lastCall, c_lastRet, c_lastLife, c_early>>
    /\ UNCHANGED <<component, stackVars, timersVars>>

ClockNext ==
    \/ ClockStart
    \/ ClockTeardown
    \/ ClockTeardownJoin
    \/ become_listener
    \/ \E ch \in Chans : Recv(ch)
    \/ \E ch \in Chans : DropReceiver(ch)
    \/ \E t \in Threads : ClockThread(t)

StackInit ==
    /\ memory = StackNew.memory
    /\ p = StackNew.p
    /\ lastOp = "none"
    /\ lastRes = Ok(0)
    /\ phase = "pushing"
    /\ pushedSeq = <<>>
    /\ pushesOk = TRUE
    /\ poppedSeq = <<>>
    /\ nAlt = 0
    /\ netOk = 0
    /\ lastAt = -1

StackNext ==
    \/ \E value \in {BaseValue, AltValue} : Push(value)
    \/ Pop

Init ==
    /\ component \in {"stack", "timers", "clock"}
    /\ StackInit
    /\ TimersInit
    /\ ClockInit

InitStack == Init /\ component = "stack"
InitTimers == Init /\ component = "timers"
InitClock == Init /\ component = "clock"
InitFacilities == Init /\ component \in {"timers", "clock"}

SpecStack == InitStack /\ [][StackNext]_vars
SpecTimers == InitTimers /\ [][TimersNext]_vars
SpecClock == InitClock /\ [][ClockNext]_vars
FacilitiesNext == TimersNext \/ ClockNext
SpecFacilities == InitFacilities /\ [][FacilitiesNext]_vars

\* the scheduler runs every spawned thread again and again
FairSpecClock == SpecClock /\ \A t \in Threads : WF_vars(ClockThread(t))

\* a poll of a running thread that finds the interval elapsed: time passes,
\* so a thread that polls again and again finds it elapsed again and again
ClockElapsed(t) == ClockThread(t) /\ c_ticks' = c_ticks + 1

\* a Clock on which teardown is not called
RunningClockNext ==
    \/ ClockStart
    \/ become_listener
    \/ \E ch \in Chans : Recv(ch)
    \/ \E ch \in Chans : DropReceiver(ch)
    \/ \E t \in Threads : ClockThread(t)

\* ... whose threads are scheduled, whose interval elapses, and whose
\* consumers keep receiving
FairSpecTicks ==
    /\ InitClock /\ [][RunningClockNext]_vars
    /\ \A t \in Threads : WF_vars(ClockThread(t)) /\ SF_vars(ClockElapsed(t))
    /\ \A ch \in Chans : WF_vars(Recv(ch))

\* start, teardown and the threads of both facilities, with the Clock's
\* listeners and consumers
ShutdownNext ==
    \/ TimersStart
    \/ TimersTeardown
    \/ TimersTeardownJoin
    \/ \E t \in Threads : TimersThread(t)
    \/ ClockNext

\* every spawned thread is scheduled again and again, and join() returns
\* once the joined thread has ended
FairSpecShutdown ==
    /\ InitFacilities /\ [][ShutdownNext]_vars
    /\ \A t \in Threads : WF_vars(TimersThread(t)) /\ WF_vars(ClockThread(t))
    /\ WF_vars(TimersTeardownJoin) /\ WF_vars(ClockTeardownJoin)

(***************************************************************************)
(* C1: LIFO law.  For every n in 0..16 and every n values pushed onto a    *)
(* new Stack, the n pushes all succeed and the n pops that follow all      *)
(* succeed and return the pushed values in exact reverse order.            *)
(***************************************************************************)
C1_LifoLaw ==
    phase \in {"pushing", "popping"} =>
        /\ pushesOk
        /\ \A k \in 1..Len(poppedSeq) :
              poppedSeq[k] = Ok(pushedSeq[Len(pushedSeq) + 1 - k])

(***************************************************************************)
(* C2: the Timers counters never underflow.  In every interleaving of the  *)
(* thread's cadence tick with set_delay_timer / set_sound_timer calls, no  *)
(* step of a thread takes a counter from 0 to 255.                         *)
(***************************************************************************)
C2_NoUnderflow ==
    [][t_pc' # t_pc =>
          /\ delay_timer = 0 => delay_timer' = 0
          /\ sound_timer = 0 => sound_timer' = 0]_vars

(***************************************************************************)
(* C3: every listener observes the same ticks.  For any two receivers      *)
(* that are still alive, the numbers of ticks sent to them differ by at    *)
(* most one per thread that is inside a fan-out (by at most one with the   *)
(* one thread of a clock started once) and are equal when no thread is     *)
(* inside a fan-out: between fan-outs, or after the thread has exited.     *)
(***************************************************************************)
InsideFanOut == {t \in Threads : c_pc[t] = "send"}

Diff(a, b) == IF a >= b THEN a - b ELSE b - a

C3_SameTicks ==
    \A a \in 1..c_nch : \A b \in 1..c_nch :
        (rx_alive[a] /\ rx_alive[b]) =>
            Diff(ch_sent[a], ch_sent[b]) <= Cardinality(InsideFanOut)

\* teardown has stored the flag while the thread is between the two sends of
\* a fan-out
W3_TeardownInsideFanOut ==
    /\ c_nch = 2
    /\ rx_alive[1] /\ rx_alive[2]
    /\ c_stop
    /\ c_caller = "joining"
    /\ \E t \in Threads : c_pc[t] = "send" /\ c_idx[t] = 2
    /\ ch_sent[1] = ch_sent[2] + 1

(***************************************************************************)
(* C4: after Clock::teardown has returned every listener's receive         *)
(* terminates.  With start called at most once no producer half of any     *)
(* channel is alive from the return on, so recv gives the buffered ticks   *)
(* and then the disconnect error; in every run that state is reached and   *)
(* kept, whether or not the clock was started.                             *)
(***************************************************************************)
ClockTeardownReturned == c_tdCalls > 0 /\ c_caller = "idle"

AllDisconnected ==
    \A ch \in 1..c_nch : ~SenderAlive(ch) /\ RecvResult(ch) # "blocked"

C4_RecvTerminates ==
    /\ []((ClockTeardownReturned /\ Cardinality(CSpawned) <= 1) => AllDisconnected)
    /\ ClockTeardownReturned ~> []AllDisconnected

\* a started clock was torn down and a live receiver still has a tick to
\* take before it sees the disconnect
W4_BufferedThenDisconnect ==
    /\ ClockTeardownReturned
    /\ CSpawned # {}
    /\ \E ch \in 1..c_nch :
          rx_alive[ch] /\ ch_buf[ch] > 0 /\ ~SenderAlive(ch)

(***************************************************************************)
(* C5: become_listener succeeds only while neither start nor teardown has  *)
(* been called.  A call after start (start being the later of the two)     *)
(* returns the already-started error, a call after teardown (teardown      *)
(* being the later) the terminated error, and in neither case is a sender  *)
(* added to the listener collection.                                       *)
(***************************************************************************)
C5_BecomeListenerGuard ==
    [][c_lastCall' = "become_listener" =>
          /\ (c_lastRet' = "Ok") <=> (CSpawned = {} /\ c_tdCalls = 0)
          /\ c_lastLife = "start" => c_lastRet' = "already_started"
          /\ c_lastLife = "teardown" => c_lastRet' = "terminated"
          /\ c_lastRet' # "Ok" =>
                (c_listeners' = c_listeners /\ c_nch' = c_nch)]_vars

W5_RejectedAfterTeardown ==
    /\ c_lastCall = "become_listener"
    /\ c_lastRet = "terminated"
    /\ CSpawned # {}

(***************************************************************************)
(* C6: teardown is idempotent for Clock and Timers.  Called on a facility  *)
(* that was never started, or a second time right after a first teardown,  *)
(* it returns Ok at once and leaves the facility terminated: stop flag     *)
(* set, no thread handle, for the Clock no listener; the second call       *)
(* changes nothing.                                                        *)
(***************************************************************************)
C6_TimersPart ==
    (t_tdCalls' = t_tdCalls + 1
        /\ (TSpawned = {} \/ (t_lastCall = "teardown" /\ t_caller = "idle"))) =>
        /\ t_lastRet' = "Ok" /\ t_caller' = "idle"
        /\ t_stop' /\ t_handle' = None
        /\ t_lastCall = "teardown" =>
              UNCHANGED <<t_stop, t_handle, delay_timer, sound_timer, t_pc>>

C6_ClockPart ==
    (c_tdCalls' = c_tdCalls + 1
        /\ (CSpawned = {} \/ (c_lastCall = "teardown" /\ c_caller = "idle"))) =>
        /\ c_lastRet' = "Ok" /\ c_caller' = "idle"
        /\ c_stop' /\ c_handle' = None /\ c_listeners' = <<>>
        /\ c_lastCall = "teardown" =>
              UNCHANGED <<c_stop, c_handle, c_listeners, c_pc, c_tl>>

C6_TeardownIdempotent == [][C6_TimersPart /\ C6_ClockPart]_vars

\* a second teardown of a facility that had been started has returned
W6_SecondTeardown ==
    \/ component = "timers" /\ t_tdCalls = 2 /\ t_lastCall = "teardown"
          /\ t_caller = "idle" /\ TSpawned # {}
    \/ component = "clock" /\ c_tdCalls = 2 /\ c_lastCall = "teardown"
          /\ c_caller = "idle" /\ CSpawned # {}

(***************************************************************************)
(* C7: countdown to zero.  With the delay counter at C > 0 when the Timers *)
(* thread is started, one thread running and no set_delay_timer call after *)
(* the start, retrieve_delay_timer returns 0 once C cadence ticks are      *)
(* complete, and 0 after every later tick.                                 *)
(***************************************************************************)
InsideTick ==
    {t \in Threads : t_pc[t] \in {"load_delay", "sub_delay", "load_sound", "sub_sound"}}

CompletedTicks == t_ticks - Cardinality(InsideTick)

C7_CountdownToZero ==
    (/\ Cardinality(TSpawned) = 1
     /\ ~t_setAfterStart
     /\ t_startDelay > 0
     /\ CompletedTicks >= t_startDelay) => retrieve_delay_timer = 0

\* one more tick than C has completed
W7_PastZero ==
    /\ Cardinality(TSpawned) = 1
    /\ ~t_setAfterStart
    /\ t_startDelay > 0
    /\ CompletedTicks > t_startDelay
    /\ retrieve_delay_timer = 0

(***************************************************************************)
(* C8: in every reachable Stack state with pointer > 0 (pointer = 16       *)
(* included) pop succeeds, decrements the pointer by one and returns the   *)
(* value stored at the new pointer position; pop fails only when the       *)
(* pointer is 0.                                                           *)
(***************************************************************************)
C8_PopSucceedsAbovezero ==
    [][(lastOp' = "pop" /\ p > 0) =>
          /\ lastRes'.ok
          /\ p' = p - 1
          /\ lastRes'.val = memory[p']
          /\ memory' = memory]_vars

(***************************************************************************)
(* C9: push on a full stack returns Err(16) and pop on an empty stack      *)
(* returns Err(0); a failing push or pop leaves the pointer and all 16     *)
(* memory slots unchanged, so a stack on which some call could succeed     *)
(* before the failing call is one on which it still can afterwards.        *)
(***************************************************************************)
Usable(s) ==
    \/ StackPop(s).res.ok
    \/ \E value \in {BaseValue, AltValue} : StackPush(s, value).res.ok

C10_TeardownJoins ==
    /\ (t_caller = "idle" /\ t_joining # None) => t_pc[t_joining] = "exited"
    /\ (c_caller = "idle" /\ c_joining # None) => c_pc[c_joining] = "exited"

\* the teardown of a started facility has returned
W10_JoinedReturn ==
    \/ component = "timers" /\ t_caller = "idle" /\ t_joining # None
          /\ t_lastRet = "Ok" /\ t_ticks > 0
    \/ component = "clock" /\ c_caller = "idle" /\ c_joining # None
          /\ c_lastRet = "Ok" /\ c_ticks > 0

(***************************************************************************)
(* C14: Stack invariant.  After any sequence of push and pop calls the     *)
(* pointer is in 0..16 and equals the number of successful pushes minus    *)
(* the number of successful pops; push succeeds exactly when the pointer   *)
(* is below 16, and no memory slot of index 16 or more is read or written. *)
(***************************************************************************)
C14_StackInvariant ==
    /\ [](/\ p \in 0..STACK_SIZE
          /\ p = netOk
          /\ lastAt < STACK_SIZE)
    /\ [][lastOp' = "push" => (lastRes'.ok <=> p < STACK_SIZE)]_vars

\* the full stack has refused a push and given nothing to a pop
W14_FullStack ==
    /\ p = STACK_SIZE
    /\ netOk = STACK_SIZE
    /\ lastOp = "push"
    /\ ~lastRes.ok
    /\ lastAt = -1

(***************************************************************************)
(* C16: a dropped consumer is harmless.  A send to a channel whose         *)
(* receiver has been dropped changes no channel and the thread goes on     *)
(* with its loop; no thread panics; every fan-out begun reaches every      *)
(* listener that is still alive; and a returned teardown has returned Ok.  *)
(***************************************************************************)
NotYetSent(ch) == {t \in Threads : c_pc[t] = "send" /\ c_idx[t] <= ch}

C16_DroppedConsumerHarmless ==
    /\ [](/\ \A t \in Threads : c_pc[t] # "panicked"
          /\ \A ch \in 1..c_nch :
                rx_alive[ch] => ch_sent[ch] = c_ticks - Cardinality(NotYetSent(ch))
          /\ (c_lastCall = "teardown" /\ c_caller = "idle") => c_lastRet = "Ok")
    /\ [][\A t \in Threads :
            (/\ c_pc[t] = "send"
             /\ <<c_pc[t], c_idx[t]>> # <<c_pc'[t], c_idx'[t]>>
             /\ ~rx_alive[c_tl[t][c_idx[t]]]) =>
                /\ ch_buf' = ch_buf /\ ch_sent' = ch_sent
                /\ c_pc'[t] \in {"send", "check"}]_vars

\* the first receiver was dropped before any tick, the second got two ticks,
\* and teardown has returned Ok
W16_OtherListenerServed ==
    /\ c_nch = 2
    /\ ~rx_alive[1] /\ ch_sent[1] = 0
    /\ rx_alive[2] /\ ch_sent[2] >= 2
    /\ c_lastCall = "teardown" /\ c_caller = "idle" /\ c_lastRet = "Ok"

(***************************************************************************)
(* C11: a set while running takes effect.  With one Timers thread running  *)
(* and set_delay_timer(v) (or set_sound_timer(v)) the last call, once      *)
(* exactly one cadence tick has completed after the store the counter      *)
(* holds v - 1 when v > 0 and 0 when v = 0, or still v when that tick had  *)
(* passed the counter before the store; it never holds a value derived     *)
(* from the counter's old value.                                           *)
(***************************************************************************)
Dec(v) == IF v > 0 THEN v - 1 ELSE 0

C11_SetTakesEffect ==
    (/\ Cardinality(TSpawned) = 1
     /\ t_sinceSet = 1
     /\ InsideTick = {}) =>
        /\ t_lastCall = "set_delay_timer" =>
              delay_timer \in {t_setVal, Dec(t_setVal)}
        /\ t_lastCall = "set_sound_timer" =>
              sound_timer \in {t_setVal, Dec(t_setVal)}

(***************************************************************************)
(* C17: the two Timers counters are independent.  set_delay_timer(v)       *)
(* stores v in the delay counter and leaves the sound counter,             *)
(* set_sound_timer(v) stores v in the sound counter and leaves the delay   *)
(* counter, retrieve_delay_timer returns the delay counter and changes     *)
(* nothing; one cadence tick of the one thread with no set call inside it  *)
(* lowers each counter by exactly 1 if it was nonzero and leaves a zero    *)
(* counter at 0, whatever the other counter holds.                         *)
(***************************************************************************)
TimersCall(call) == t_pc' = t_pc /\ t_lastCall' = call

C17_CountersIndependent ==
    [][/\ TimersCall("set_delay_timer") =>
             delay_timer' = t_setVal' /\ sound_timer' = sound_timer
       /\ TimersCall("set_sound_timer") =>
             sound_timer' = t_setVal' /\ delay_timer' = delay_timer
       /\ TimersCall("retrieve_delay_timer") =>
             /\ t_read' = delay_timer
             /\ UNCHANGED <<delay_timer, sound_timer, t_handle, t_stop>>
       /\ (/\ Cardinality(TSpawned) = 1
           /\ t_tick.st = "clean"
           /\ t_tick'.st = "none") =>
             /\ delay_timer' = Dec(t_tick.delay)
             /\ sound_timer' = Dec(t_tick.sound)]_vars

\* set_sound_timer(0) left the delay counter at 8, and the tick begun after
\* it has lowered the delay counter to 7 and finds the sound counter at 0
W17_OneLoweredOneAtZero ==
    /\ Cardinality(TSpawned) = 1
    /\ t_lastCall = "set_sound_timer"
    /\ t_tick = [st |-> "clean", delay |-> RUNLOOP_TIMER_DEFAULT, sound |-> 0]
    /\ \E t \in Threads : t_pc[t] = "load_sound"
    /\ delay_timer = RUNLOOP_TIMER_DEFAULT - 1
    /\ sound_timer = 0

(***************************************************************************)
(* C18: the Timers counters move only while the thread runs.  Both         *)
(* counters hold the default 8 until the first call; before start is       *)
(* called, and after teardown has returned with start called at most once, *)
(* a counter changes only by its own set call, so the delay counter still  *)
(* holds what the last set_delay_timer stored and what the last            *)
(* retrieve_delay_timer returned.                                          *)
(***************************************************************************)
TimersQuiet ==
    \/ TSpawned = {}
    \/ t_tdCalls > 0 /\ t_caller = "idle" /\ Cardinality(TSpawned) <= 1

C18_MoveOnlyWhileRunning ==
    /\ [](/\ t_lastCall = "new" =>
                /\ delay_timer = RUNLOOP_TIMER_DEFAULT
                /\ sound_timer = RUNLOOP_TIMER_DEFAULT
          /\ TimersQuiet =>
                /\ t_lastCall = "set_delay_timer" => retrieve_delay_timer = t_setVal
                /\ t_lastCall = "retrieve_delay_timer" => retrieve_delay_timer = t_read)
    /\ [][TimersQuiet =>
            /\ delay_timer' # delay_timer => TimersCall("set_delay_timer")
            /\ sound_timer' # sound_timer => TimersCall("set_sound_timer")]_vars

\* after the thread's ticks and a returned teardown, retrieve_delay_timer
\* has returned the value the thread left in the delay counter
W18_ReadAfterTeardown ==
    /\ Cardinality(TSpawned) = 1
    /\ t_tdCalls > 0 /\ t_caller = "idle" /\ t_joining # None
    /\ t_ticks = MaxTicks
    /\ t_lastCall = "retrieve_delay_timer"
    /\ t_read = RUNLOOP_TIMER_DEFAULT - MaxTicks
    /\ delay_timer = t_read

(***************************************************************************)
(* C19: ticks exist only between start and teardown.  Before Clock::start  *)
(* is called no listener's channel holds or has been sent a tick, and for  *)
(* a Clock whose start was called at most once no tick is appended to any  *)
(* listener's channel once teardown has returned.                          *)
(***************************************************************************)
C19_TicksOnlyBetween ==
    /\ [](CSpawned = {} =>
             \A ch \in Chans : ch_sent[ch] = 0 /\ ch_buf[ch] = 0)
    /\ [][(ClockTeardownReturned /\ Cardinality(CSpawned) <= 1) =>
             /\ ch_sent' = ch_sent
             /\ \A ch \in Chans : ch_buf'[ch] <= ch_buf[ch]]_vars

\* both listeners were sent one tick between start and the returned
\* teardown; one of them has taken it, the other still has it buffered
W19_SentBeforeTeardown ==
    /\ ClockTeardownReturned
    /\ Cardinality(CSpawned) = 1
    /\ c_nch = 2
    /\ ch_sent[1] = 1 /\ ch_sent[2] = 1
    /\ ch_buf[1] = 0 /\ ch_buf[2] = 1

(***************************************************************************)
(* C12: one-shot lifecycle.  Once teardown has been called on a Clock or   *)
(* Timers and has returned, no tick is sent to any listener and no thread  *)
(* changes a counter, whatever start calls come later and in any sequence  *)
(* of start / teardown calls.                                              *)
(***************************************************************************)
TimersTeardownReturned == t_tdCalls > 0 /\ t_caller = "idle"

C12_OneShot ==
    [][/\ ClockTeardownReturned => ch_sent' = ch_sent
       /\ TimersTeardownReturned =>
             (t_pc' # t_pc => UNCHANGED <<delay_timer, sound_timer>>)]_vars

(***************************************************************************)
(* C12, amended: the same, for every sequence of start / teardown calls in *)
(* which start was called at most once before the first teardown call; a   *)
(* start called after a teardown resumes nothing.                          *)
(***************************************************************************)
C12_OneShotSingleStart ==
    [][/\ (ClockTeardownReturned /\ c_early <= 1) => ch_sent' = ch_sent
       /\ (TimersTeardownReturned /\ t_early <= 1) =>
             (t_pc' # t_pc => UNCHANGED <<delay_timer, sound_timer>>)]_vars

\* a facility that ticked was torn down and then started again; the thread
\* of the later start has left its loop
W12_StartAfterTeardown ==
    \/ /\ component = "timers"
       /\ TimersTeardownReturned /\ t_early = 1 /\ t_ticks > 0
       /\ t_lastCall = "start"
       /\ Cardinality(TSpawned) >= 2
       /\ \A t \in TSpawned : t_pc[t] = "exited"
    \/ /\ component = "clock"
       /\ ClockTeardownReturned /\ c_early = 1 /\ c_nch > 0 /\ ch_sent[1] > 0
       /\ c_lastCall = "start"
       /\ Cardinality(CSpawned) >= 2
       /\ \A t \in CSpawned : c_pc[t] = "exited"

(***************************************************************************)
(* C13: tick delivery liveness.  Once a Clock is started, under fair       *)
(* scheduling of its thread every listener that keeps receiving and is     *)
(* not dropped has eventually received a k-th tick, for every k up to the  *)
(* number of fan-outs of the model, as long as teardown is not called.     *)
(***************************************************************************)
Received(ch) == ch_sent[ch] - ch_buf[ch]

C13_TickDelivery ==
    (CSpawned # {}) ~>
        \A ch \in 1..c_nch : rx_alive[ch] => Received(ch) = MaxFanOuts

\* two listeners of a running clock have each received every tick
W13_AllReceived ==
    /\ ~c_stop
    /\ Cardinality(CSpawned) = 1
    /\ c_nch = 2
    /\ \A ch \in 1..c_nch : rx_alive[ch] /\ Received(ch) = MaxFanOuts

(***************************************************************************)
(* C15: shutdown terminates.  Under fair scheduling, from every state in   *)
(* which teardown has been called on a facility a state follows in which   *)
(* no teardown call is waiting in join and every thread spawned by start   *)
(* so far has left its loop, also a thread whose handle a later start      *)
(* overwrote; a thread inside a fan-out can always take its next send, so  *)
(* it reaches the flag check.                                              *)
(***************************************************************************)
TimersDown == t_caller = "idle" /\ \A t \in TSpawned : t_pc[t] = "exited"

ClockDown == c_caller = "idle" /\ \A t \in CSpawned : c_pc[t] = "exited"

C15_ShutdownTerminates ==
    /\ t_stop ~> TimersDown
    /\ c_stop ~> ClockDown
    /\ [](\A t \in Threads : c_pc[t] = "send" => ENABLED ClockThread(t))

\* start was called twice before teardown; teardown has returned and both
\* threads have left their loops after ticking
W15_BothThreadsExited ==
    \/ /\ component = "timers"
       /\ t_early = 2 /\ t_ticks > 0
       /\ TimersTeardownReturned
       /\ \A t \in TSpawned : t_pc[t] = "exited"
    \/ /\ component = "clock"
       /\ c_early = 2 /\ c_nch > 0 /\ ch_sent[1] > 0
       /\ ClockTeardownReturned
       /\ \A t \in CSpawned : c_pc[t] = "exited"

====
